---- MODULE Spec2Model ----
(***************************************************************************)
(* A model of two pieces of the WasmFS core:                               *)
(*                                                                         *)
(*   - emscripten::SyncToAsync (the sync-to-async bridge): a constructor   *)
(*     thread, one worker thread, invoker threads and a destructor thread  *)
(*     that communicate through one std::mutex, one condition variable,    *)
(*     `state`, `workCount` and the pending `work` slot.                   *)
(*   - wasmfs::File / Directory (file.h): nodes with a recursive mutex,    *)
(*     Handles, Directory::Handle::setEntry / unlinkEntry.                 *)
(*                                                                         *)
(* The two pieces share no state; each has its own specification.          *)
(***************************************************************************)
EXTENDS Integers, Sequences, FiniteSets, TLC

\* ------------------------------------------------------------------ bounds

\* Number of threads that call invoke on the one bridge instance.
NumInvokers == 2
\* Number of invoke calls each invoker thread makes.
MaxCalls == 1

\* Number of entry names the threads of the file tree use.
NumNames == 1

\* Longest pathname, in characters, given to the path resolver.
MaxPathLen == 4

InvokerNames == <<"i1", "i2", "i3", "i4">>
Invokers == {InvokerNames[k] : k \in 1..NumInvokers}
Threads == {"ctor", "worker", "dtor"} \cup Invokers

\* The threads that work on the file tree, and its nodes.
FsThreads == {"t1", "t2"}
Dirs == {"d1", "d2"}
Files == {"f1"}
Nodes == Dirs \cup Files
\* The keys of Directory::entries the threads use.
NameSeq == <<"a", "b", "c">>
Names == {NameSeq[k] : k \in 1..NumNames}

\* The work items: the k-th call of invoker i passes work item <<i, k>>.
WorkItems == Invokers \X (1..MaxCalls)

\* The std::function slot `work` before any invoke has stored into it.
NoWork == <<>>

VARIABLES
  \* ---- SyncToAsync
  pc,         \* each thread's position in its code
  blocked,    \* "run" | "cv" (inside condition.wait, not notified)
              \* | "mutex" (notified or woken, waiting to reacquire mutex)
  mutex,      \* the owner of SyncToAsync::mutex, or "free"
  state,      \* SyncToAsync::state
  workCount,  \* SyncToAsync::workCount
  work,       \* SyncToAsync::work: the pending work item
  workID,     \* invoke's local workID, per invoker
  calls,      \* number of invoke calls each invoker has begun
  running,    \* work items whose work function was called, resume not fired
  started,    \* history: how many times the worker called each work item
  resumed,    \* history: the work items whose resume callback has fired
  submitted,  \* history: the work items an invoke stored into `work`
  returned,   \* history: the work items whose invoke call has returned
  aborted,    \* an assert of SyncToAsync has failed
  dtorRaced,  \* the destructor was started while an invoke was in progress
  \* ---- File / Directory
  fpc,        \* each file-tree thread's position in its code
  hnd,        \* each thread's live Handle objects: top, child, probe
  mtx,        \* File::mutex of each node: owner and recursion count
  entries,    \* Directory::entries of each directory: name -> node or "null"
  parent,     \* File::parent of each node: a directory or "null"
  op,         \* the arguments of the thread's setEntry / unlinkEntry call
  lastSet,    \* history: the setEntry call the thread has just returned from
  fsAborted,  \* an assert of file.h has failed
  \* ---- path resolution
  rpc,        \* the resolving thread's position in splitPath / getParsedPath
  rin,        \* the call's inputs: pathname, forbiddenAncestor, and the cwd
  rwalk,      \* pathParts, the position in them, and getDir's `curr`
  rout        \* the results: err, ParsedPath::parent and ParsedPath::child

bvars == <<pc, blocked, mutex, state, workCount, work, workID, calls,
           running, started, resumed, submitted, returned, aborted, dtorRaced>>

fvars == <<fpc, hnd, mtx, entries, parent, op, lastSet, fsAborted>>

pvars == <<rpc, rin, rwalk, rout>>

vars == <<bvars, fvars, pvars>>

\* ------------------------------------------------- std::condition_variable

\* The threads inside condition.wait that no notification has reached yet.
Waiters(b) == {t \in Threads : b[t] = "cv"}

\* condition.notify_all(): every waiter is woken; each then has to reacquire
\* the mutex before its wait returns or re-evaluates its predicate.
NotifyAll(b) == {[t \in Threads |-> IF b[t] = "cv" THEN "mutex" ELSE b[t]]}

\* condition.notify_one(): one waiter, if there is any, is woken; which one
\* is not specified.
NotifyOne(b) ==
  IF Waiters(b) = {} THEN {b}
  ELSE {[b EXCEPT ![t] = "mutex"] : t \in Waiters(b)}

\* condition.wait(lock, pred) at the place where `t` holds the mutex and
\* evaluates pred: go on to `next` when it holds, otherwise release the mutex
\* and block on the condition variable (pc stays at the wait).
WaitStep(t, pred, next) ==
  /\ mutex = t
  /\ blocked[t] = "run"
  /\ IF pred
       THEN /\ pc' = [pc EXCEPT ![t] = next]
            /\ UNCHANGED <<blocked, mutex>>
       ELSE /\ blocked' = [blocked EXCEPT ![t] = "cv"]
            /\ mutex' = "free"
            /\ UNCHANGED pc

\* A woken waiter reacquires the mutex inside condition.wait.
Reacquire(t) ==
  /\ ~aborted
  /\ UNCHANGED <<fvars, pvars>>
  /\ blocked[t] = "mutex"
  /\ mutex = "free"
  /\ mutex' = t
  /\ blocked' = [blocked EXCEPT ![t] = "run"]
  /\ UNCHANGED <<pc, state, workCount, work, workID, calls, running, started,
                 resumed, submitted, returned, aborted, dtorRaced>>

\* std::condition_variable::wait may wake without any notification.
SpuriousWakeup(t) ==
  /\ ~aborted
  /\ UNCHANGED <<fvars, pvars>>
  /\ blocked[t] = "cv"
  /\ blocked' = [blocked EXCEPT ![t] = "mutex"]
  /\ UNCHANGED <<pc, mutex, state, workCount, work, workID, calls, running,
                 started, resumed, submitted, returned, aborted, dtorRaced>>

\* std::unique_lock<std::mutex> lock(mutex) / workerLock.lock()
LockMutex(t, next) ==
  /\ mutex = "free"
  /\ mutex' = t
  /\ pc' = [pc EXCEPT ![t] = next]

\* ------------------------------------------------------------ constructor

\* Mutant: the constructor does not wait for the worker.
CtorReady_NoWait == TRUE

\* The predicate of the constructor's wait.
CtorReady == state = "Waiting"

CtorLock ==
  /\ ~aborted
  /\ UNCHANGED <<fvars, pvars>>
  /\ pc["ctor"] = "ctor_lock"
  /\ LockMutex("ctor", "ctor_spawn")
  /\ UNCHANGED <<blocked, state, workCount, work, workID, calls, running,
                 started, resumed, submitted, returned, aborted, dtorRaced>>

\* thread = std::thread(threadMain, this)
CtorSpawn ==
  /\ ~aborted
  /\ UNCHANGED <<fvars, pvars>>
  /\ pc["ctor"] = "ctor_spawn"
  /\ pc' = [pc EXCEPT !["ctor"] = "ctor_wait", !["worker"] = "main_lock"]
  /\ UNCHANGED <<blocked, mutex, state, workCount, work, workID, calls,
                 running, started, resumed, submitted, returned, aborted,
                 dtorRaced>>

CtorWait ==
  /\ ~aborted
  /\ UNCHANGED <<fvars, pvars>>
  /\ pc["ctor"] = "ctor_wait"
  /\ WaitStep("ctor", CtorReady, "ctor_ret")
  /\ UNCHANGED <<state, workCount, work, workID, calls, running, started,
                 resumed, submitted, returned, aborted, dtorRaced>>

\* The constructor returns: `lock` goes out of scope and releases the mutex.
CtorReturn ==
  /\ ~aborted
  /\ UNCHANGED <<fvars, pvars>>
  /\ pc["ctor"] = "ctor_ret"
  /\ mutex = "ctor"
  /\ mutex' = "free"
  /\ pc' = [pc EXCEPT !["ctor"] = "ctor_done"]
  /\ UNCHANGED <<blocked, state, workCount, work, workID, calls, running,
                 started, resumed, submitted, returned, aborted, dtorRaced>>

\* ----------------------------------------------------------------- worker

\* The predicate of threadIter's wait.
WorkerWake == state = "WorkAvailable" \/ state = "ShouldExit"

\* Mutant: threadIter is scheduled again as soon as the work function has
\* returned, without the resume callback.
AfterWork_Reschedule == "iter"

\* Where the worker is once the work function has returned: back in its event
\* loop, with threadIter scheduled again only by the resume callback.
AfterWork == "inwork"

\* Mutant: the resume callback wakes one waiter only.
ResumeNotify_One(b) == NotifyOne(b)

\* The notification the resume callback sends.
ResumeNotify(b) == NotifyAll(b)

\* threadMain: parent->workerLock.lock()
WorkerMainLock ==
  /\ ~aborted
  /\ UNCHANGED <<fvars, pvars>>
  /\ pc["worker"] = "main_lock"
  /\ LockMutex("worker", "main_notify")
  /\ UNCHANGED <<blocked, state, workCount, work, workID, calls, running,
                 started, resumed, submitted, returned, aborted, dtorRaced>>

\* threadMain: notify_one, schedule threadIter, return with the lock held.
WorkerMainNotify ==
  /\ ~aborted
  /\ UNCHANGED <<fvars, pvars>>
  /\ pc["worker"] = "main_notify"
  /\ blocked' \in NotifyOne(blocked)
  /\ pc' = [pc EXCEPT !["worker"] = "iter"]
  /\ UNCHANGED <<mutex, state, workCount, work, workID, calls, running,
                 started, resumed, submitted, returned, aborted, dtorRaced>>

\* threadIter: assert(workerLock.owns_lock()); state = Waiting
WorkerIter ==
  /\ ~aborted
  /\ UNCHANGED <<fvars, pvars>>
  /\ pc["worker"] = "iter"
  /\ IF mutex = "worker"
       THEN /\ state' = "Waiting"
            /\ pc' = [pc EXCEPT !["worker"] = "iter_wait"]
            /\ UNCHANGED aborted
       ELSE /\ aborted' = TRUE
            /\ UNCHANGED <<state, pc>>
  /\ UNCHANGED <<blocked, mutex, workCount, work, workID, calls, running,
                 started, resumed, submitted, returned, dtorRaced>>

\* threadIter: condition.wait(workerLock, WorkAvailable or ShouldExit)
WorkerWait ==
  /\ ~aborted
  /\ UNCHANGED <<fvars, pvars>>
  /\ pc["worker"] = "iter_wait"
  /\ WaitStep("worker", WorkerWake, "iter_woke")
  /\ UNCHANGED <<state, workCount, work, workID, calls, running, started,
                 resumed, submitted, returned, aborted, dtorRaced>>

\* threadIter: if (state == ShouldExit) pthread_exit(0). The worker's
\* workerLock is not released.
WorkerExit ==
  /\ ~aborted
  /\ UNCHANGED <<fvars, pvars>>
  /\ pc["worker"] = "iter_woke"
  /\ state = "ShouldExit"
  /\ pc' = [pc EXCEPT !["worker"] = "exited"]
  /\ UNCHANGED <<blocked, mutex, state, workCount, work, workID, calls,
                 running, started, resumed, submitted, returned, aborted,
                 dtorRaced>>

\* Mutant: the worker's lock is released when threadIter returns.
WorkerLockInFlight_Released == "free"

\* The owner of the mutex once threadIter has returned with a work item in
\* flight: workerLock is a member, not a local of threadIter, and stays locked.
WorkerLockInFlight == "worker"

\* threadIter: assert(state == WorkAvailable); copy the work, allocate the
\* resume function and call work(&resume).
WorkerRun ==
  /\ ~aborted
  /\ UNCHANGED <<fvars, pvars>>
  /\ pc["worker"] = "iter_woke"
  /\ state # "ShouldExit"
  /\ IF state = "WorkAvailable"
       THEN /\ running' = running \cup {work}
            /\ started' = [started EXCEPT ![work] = @ + 1]
            /\ pc' = [pc EXCEPT !["worker"] = AfterWork]
            /\ mutex' = WorkerLockInFlight
            /\ UNCHANGED aborted
       ELSE /\ aborted' = TRUE
            /\ UNCHANGED <<running, started, pc, mutex>>
  /\ UNCHANGED <<blocked, state, workCount, work, workID, calls,
                 resumed, submitted, returned, dtorRaced>>

\* The resume callback of a running work item fires (from within the work
\* function or later from the worker's event loop): workCount++, notify_all,
\* schedule threadIter.
WorkerResume ==
  /\ ~aborted
  /\ UNCHANGED <<fvars, pvars>>
  /\ pc["worker"] = "inwork"
  /\ \E w \in running :
       IF mutex = "worker"
         THEN /\ workCount' = workCount + 1
              /\ blocked' \in ResumeNotify(blocked)
              /\ running' = running \ {w}
              /\ resumed' = resumed \cup {w}
              /\ pc' = [pc EXCEPT !["worker"] = "iter"]
              /\ UNCHANGED aborted
         ELSE /\ aborted' = TRUE
              /\ UNCHANGED <<workCount, blocked, running, resumed, pc>>
  /\ UNCHANGED <<mutex, state, work, workID, calls, started, submitted,
                 returned, dtorRaced>>

\* ----------------------------------------------------------------- invoke

\* Mutant: invoke stores its work whatever the state.
InvokeReady_NoGate == TRUE

\* The predicate of invoke's first wait (and of the `if` before it).
InvokeReady == state = "Waiting"

\* Mutant: invoke waits for workCount >= workID.
InvokeDone_NotStrict(i) == workCount >= workID[i]

\* The predicate of invoke's second wait.
InvokeDone(i) == workCount > workID[i]

\* The notification invoke sends after storing its work.
SubmitNotify(b) == NotifyAll(b)

\* A thread calls invoke on the constructed bridge (the destructor has not
\* been started).
InvokeBegin(i) ==
  /\ ~aborted
  /\ UNCHANGED <<fvars, pvars>>
  /\ pc[i] = "idle"
  /\ calls[i] < MaxCalls
  /\ pc["ctor"] = "ctor_done"
  /\ pc["dtor"] = "dtor_idle"
  /\ calls' = [calls EXCEPT ![i] = @ + 1]
  /\ pc' = [pc EXCEPT ![i] = "inv_lock"]
  /\ UNCHANGED <<blocked, mutex, state, workCount, work, workID, running,
                 started, resumed, submitted, returned, aborted, dtorRaced>>

InvokeLock(i) ==
  /\ ~aborted
  /\ UNCHANGED <<fvars, pvars>>
  /\ pc[i] = "inv_lock"
  /\ LockMutex(i, "inv_gate")
  /\ UNCHANGED <<blocked, state, workCount, work, workID, calls, running,
                 started, resumed, submitted, returned, aborted, dtorRaced>>

\* if (state != Waiting) condition.wait(lock, state == Waiting)
InvokeGate(i) ==
  /\ ~aborted
  /\ UNCHANGED <<fvars, pvars>>
  /\ pc[i] = "inv_gate"
  /\ WaitStep(i, InvokeReady, "inv_submit")
  /\ UNCHANGED <<state, workCount, work, workID, calls, running, started,
                 resumed, submitted, returned, aborted, dtorRaced>>

\* assert(state == Waiting); workID = workCount; work = newWork;
\* state = WorkAvailable
InvokeSubmit(i) ==
  /\ ~aborted
  /\ UNCHANGED <<fvars, pvars>>
  /\ pc[i] = "inv_submit"
  /\ mutex = i
  /\ IF state = "Waiting"
       THEN /\ workID' = [workID EXCEPT ![i] = workCount]
            /\ work' = <<i, calls[i]>>
            /\ state' = "WorkAvailable"
            /\ submitted' = submitted \cup {<<i, calls[i]>>}
            /\ pc' = [pc EXCEPT ![i] = "inv_notify"]
            /\ UNCHANGED aborted
       ELSE /\ aborted' = TRUE
            /\ UNCHANGED <<workID, work, state, submitted, pc>>
  /\ UNCHANGED <<blocked, mutex, workCount, calls, running, started,
                 resumed, returned, dtorRaced>>

InvokeNotify(i) ==
  /\ ~aborted
  /\ UNCHANGED <<fvars, pvars>>
  /\ pc[i] = "inv_notify"
  /\ blocked' \in SubmitNotify(blocked)
  /\ pc' = [pc EXCEPT ![i] = "inv_wait"]
  /\ UNCHANGED <<mutex, state, workCount, work, workID, calls, running,
                 started, resumed, submitted, returned, aborted, dtorRaced>>

\* condition.wait(lock, workCount > workID)
InvokeWait(i) ==
  /\ ~aborted
  /\ UNCHANGED <<fvars, pvars>>
  /\ pc[i] = "inv_wait"
  /\ WaitStep(i, InvokeDone(i), "inv_ret")
  /\ UNCHANGED <<state, workCount, work, workID, calls, running, started,
                 resumed, submitted, returned, aborted, dtorRaced>>

\* invoke returns: `lock` goes out of scope and releases the mutex.
InvokeReturn(i) ==
  /\ ~aborted
  /\ UNCHANGED <<fvars, pvars>>
  /\ pc[i] = "inv_ret"
  /\ mutex = i
  /\ mutex' = "free"
  /\ returned' = returned \cup {<<i, calls[i]>>}
  /\ pc' = [pc EXCEPT ![i] = "idle"]
  /\ UNCHANGED <<blocked, state, workCount, work, workID, calls, running,
                 started, resumed, submitted, aborted, dtorRaced>>

\* ------------------------------------------------------------- destructor

\* Mutant: the destructor does not check the state.
DtorPre_Unchecked == TRUE

\* The destructor's assert.
DtorPre == state = "Waiting"

\* Mutant: the destructor does not wake the worker.
DtorWake_None(b) == {b}

\* The notification the destructor sends.
DtorWake(b) == NotifyOne(b)

InCall(i) == pc[i] # "idle"

\* The bridge is destructed as its contract requires: constructed, and no
\* invoke in progress.
DtorBegin ==
  /\ ~aborted
  /\ UNCHANGED <<fvars, pvars>>
  /\ pc["dtor"] = "dtor_idle"
  /\ pc["ctor"] = "ctor_done"
  /\ \A i \in Invokers : ~InCall(i)
  /\ pc' = [pc EXCEPT !["dtor"] = "dtor_lock"]
  /\ UNCHANGED <<blocked, mutex, state, workCount, work, workID, calls,
                 running, started, resumed, submitted, returned, aborted,
                 dtorRaced>>

\* The bridge is destructed while an invoke is in progress (a misuse).
DtorBeginRace ==
  /\ ~aborted
  /\ UNCHANGED <<fvars, pvars>>
  /\ pc["dtor"] = "dtor_idle"
  /\ pc["ctor"] = "ctor_done"
  /\ \E i \in Invokers : InCall(i)
  /\ pc' = [pc EXCEPT !["dtor"] = "dtor_lock"]
  /\ dtorRaced' = TRUE
  /\ UNCHANGED <<blocked, mutex, state, workCount, work, workID, calls,
                 running, started, resumed, submitted, returned, aborted>>

DtorLock ==
  /\ ~aborted
  /\ UNCHANGED <<fvars, pvars>>
  /\ pc["dtor"] = "dtor_lock"
  /\ LockMutex("dtor", "dtor_check")
  /\ UNCHANGED <<blocked, state, workCount, work, workID, calls, running,
                 started, resumed, submitted, returned, aborted, dtorRaced>>

\* assert(state == Waiting); state = ShouldExit
DtorSet ==
  /\ ~aborted
  /\ UNCHANGED <<fvars, pvars>>
  /\ pc["dtor"] = "dtor_check"
  /\ mutex = "dtor"
  /\ IF DtorPre
       THEN /\ state' = "ShouldExit"
            /\ pc' = [pc EXCEPT !["dtor"] = "dtor_notify"]
            /\ UNCHANGED aborted
       ELSE /\ aborted' = TRUE
            /\ UNCHANGED <<state, pc>>
  /\ UNCHANGED <<blocked, mutex, workCount, work, workID, calls, running,
                 started, resumed, submitted, returned, dtorRaced>>

DtorNotify ==
  /\ ~aborted
  /\ UNCHANGED <<fvars, pvars>>
  /\ pc["dtor"] = "dtor_notify"
  /\ blocked' \in DtorWake(blocked)
  /\ pc' = [pc EXCEPT !["dtor"] = "dtor_unlock"]
  /\ UNCHANGED <<mutex, state, workCount, work, workID, calls, running,
                 started, resumed, submitted, returned, aborted, dtorRaced>>

DtorUnlock ==
  /\ ~aborted
  /\ UNCHANGED <<fvars, pvars>>
  /\ pc["dtor"] = "dtor_unlock"
  /\ mutex = "dtor"
  /\ mutex' = "free"
  /\ pc' = [pc EXCEPT !["dtor"] = "dtor_join"]
  /\ UNCHANGED <<blocked, state, workCount, work, workID, calls, running,
                 started, resumed, submitted, returned, aborted, dtorRaced>>

\* thread.join()
DtorJoin ==
  /\ ~aborted
  /\ UNCHANGED <<fvars, pvars>>
  /\ pc["dtor"] = "dtor_join"
  /\ pc["worker"] = "exited"
  /\ pc' = [pc EXCEPT !["dtor"] = "dtor_done"]
  /\ UNCHANGED <<blocked, mutex, state, workCount, work, workID, calls,
                 running, started, resumed, submitted, returned, aborted,
                 dtorRaced>>

\* ------------------------------------------------- File::Handle and mutex

NoHandle == [node |-> "null", owns |-> FALSE]
NoOp == [target |-> "null", name |-> "", child |-> "null"]

\* std::recursive_mutex: lock() and try_lock() succeed when the mutex is free
\* or already owned by the calling thread.
CanAcquire(mu, t, n) == mu[n].owner \in {"none", t}

MutexLock(mu, t, n) ==
  [mu EXCEPT ![n] = [owner |-> t, count |-> @.count + 1]]

MutexUnlock(mu, n) ==
  [mu EXCEPT ![n] = IF @.count <= 1
                      THEN [owner |-> "none", count |-> 0]
                      ELSE [owner |-> @.owner, count |-> @.count - 1]]

\* Handle(file, std::defer_lock): a handle that does not own the lock.
HandleDeferred(mu, t, n) == {[mtx |-> mu, h |-> [node |-> n, owns |-> FALSE]]}

\* Mutant: the Handle constructor does not lock.
HandleCtor_Deferred(mu, t, n) == HandleDeferred(mu, t, n)

\* Handle(file): lock(file->mutex) blocks until the lock can be acquired; the
\* outcomes of the constructor once it can (none while it blocks).
HandleCtor(mu, t, n) ==
  IF CanAcquire(mu, t, n)
    THEN {[mtx |-> MutexLock(mu, t, n), h |-> [node |-> n, owns |-> TRUE]]}
    ELSE {}

\* Mutant: a destroyed Handle leaves the mutex locked.
HandleDtor_Leak(mu, h) == mu

\* ~Handle: the unique_lock unlocks if it owns the lock.
HandleDtor(mu, h) == IF h.owns THEN MutexUnlock(mu, h.node) ELSE mu

\* Mutant: maybeLocked returns without unlocking what its trylock acquired.
MaybeLockedLocal_Leak(mu, h) == mu

\* maybeLocked returns: its local `handle` goes out of scope.
MaybeLockedLocal(mu, h) == HandleDtor(mu, h)

\* Mutant: setEntry takes no lock on the inserted node.
SetEntryChildHandle_Deferred(mu, t, n) == HandleDeferred(mu, t, n)

\* setEntry: auto lockedInserted = inserted->locked()
SetEntryChildHandle(mu, t, n) == HandleCtor(mu, t, n)

\* Mutant: unlinkEntry takes no lock on the unlinked node.
UnlinkChildHandle_Deferred(mu, t, n) == HandleDeferred(mu, t, n)

\* unlinkEntry: auto unlinked = getDir()->entries[pathName]->locked()
UnlinkChildHandle(mu, t, n) == HandleCtor(mu, t, n)

\* Thread t has a handle on n that locked() or maybeLocked() returned (or that
\* setEntry / unlinkEntry made of the child).
HasHandle(t, n) == hnd[t].top.node = n \/ hnd[t].child.node = n

\* The directory of the thread's Directory::Handle.
TopDir(t) == hnd[t].top.node

\* ------------------------------------------------ locked() / maybeLocked()

\* A thread calls locked() on a node.
FsLockBegin(t, n) ==
  /\ ~fsAborted
  /\ UNCHANGED <<bvars, pvars>>
  /\ fpc[t] = "idle"
  /\ op' = [op EXCEPT ![t] = [NoOp EXCEPT !.target = n]]
  /\ fpc' = [fpc EXCEPT ![t] = "lock_wait"]
  /\ UNCHANGED <<hnd, mtx, entries, parent, lastSet, fsAborted>>

\* locked(): return Handle(shared_from_this())
FsLockAcquire(t) ==
  /\ ~fsAborted
  /\ UNCHANGED <<bvars, pvars>>
  /\ fpc[t] = "lock_wait"
  /\ \E r \in HandleCtor(mtx, t, op[t].target) :
       /\ mtx' = r.mtx
       /\ hnd' = [hnd EXCEPT ![t].top = r.h]
  /\ op' = [op EXCEPT ![t] = NoOp]
  /\ fpc' = [fpc EXCEPT ![t] = "have"]
  /\ UNCHANGED <<entries, parent, lastSet, fsAborted>>

\* A thread calls maybeLocked() on a node:
\* auto handle = Handle(shared_from_this(), std::defer_lock);
\* if (handle.trylock())
FsTryProbe(t, n) ==
  /\ ~fsAborted
  /\ UNCHANGED <<bvars, pvars>>
  /\ fpc[t] = "idle"
  /\ op' = [op EXCEPT ![t] = [NoOp EXCEPT !.target = n]]
  /\ \E r \in HandleDeferred(mtx, t, n) :
       IF CanAcquire(r.mtx, t, n)
         THEN /\ mtx' = MutexLock(r.mtx, t, n)
              /\ hnd' = [hnd EXCEPT ![t].probe = [r.h EXCEPT !.owns = TRUE]]
              /\ fpc' = [fpc EXCEPT ![t] = "try_second"]
         ELSE /\ mtx' = r.mtx
              /\ hnd' = [hnd EXCEPT ![t].probe = r.h]
              /\ fpc' = [fpc EXCEPT ![t] = "try_none"]
  /\ UNCHANGED <<entries, parent, lastSet, fsAborted>>

\* maybeLocked(): return Handle(shared_from_this()); the local `handle` is
\* destroyed on return.
FsTryReturn(t) ==
  /\ ~fsAborted
  /\ UNCHANGED <<bvars, pvars>>
  /\ fpc[t] = "try_second"
  /\ \E r \in HandleCtor(mtx, t, op[t].target) :
       /\ mtx' = MaybeLockedLocal(r.mtx, hnd[t].probe)
       /\ hnd' = [hnd EXCEPT ![t].top = r.h, ![t].probe = NoHandle]
  /\ op' = [op EXCEPT ![t] = NoOp]
  /\ fpc' = [fpc EXCEPT ![t] = "have"]
  /\ UNCHANGED <<entries, parent, lastSet, fsAborted>>

\* maybeLocked(): return {}; the local `handle` is destroyed on return.
FsTryNone(t) ==
  /\ ~fsAborted
  /\ UNCHANGED <<bvars, pvars>>
  /\ fpc[t] = "try_none"
  /\ mtx' = MaybeLockedLocal(mtx, hnd[t].probe)
  /\ hnd' = [hnd EXCEPT ![t].probe = NoHandle]
  /\ op' = [op EXCEPT ![t] = NoOp]
  /\ fpc' = [fpc EXCEPT ![t] = "idle"]
  /\ UNCHANGED <<entries, parent, lastSet, fsAborted>>

\* The handle the thread got from locked() / maybeLocked() is destroyed.
FsRelease(t) ==
  /\ ~fsAborted
  /\ UNCHANGED <<bvars, pvars>>
  /\ fpc[t] = "have"
  /\ mtx' = HandleDtor(mtx, hnd[t].top)
  /\ hnd' = [hnd EXCEPT ![t].top = NoHandle]
  /\ op' = [op EXCEPT ![t] = NoOp]
  /\ lastSet' = [lastSet EXCEPT ![t] = <<>>]
  /\ fpc' = [fpc EXCEPT ![t] = "idle"]
  /\ UNCHANGED <<entries, parent, fsAborted>>

\* One step of the descent of getDir: with the current directory locked, look
\* up the next component, release the current directory's lock, and go on to
\* lock the directory found (the walk goes on only through directories).
FsDescend(t, name) ==
  /\ ~fsAborted
  /\ UNCHANGED <<bvars, pvars>>
  /\ fpc[t] = "have"
  /\ TopDir(t) \in Dirs
  /\ entries[TopDir(t)][name] \in Dirs
  /\ mtx' = HandleDtor(mtx, hnd[t].top)
  /\ hnd' = [hnd EXCEPT ![t].top = NoHandle]
  /\ op' = [op EXCEPT ![t] = [target |-> entries[TopDir(t)][name],
                              name |-> name, child |-> "null"]]
  /\ lastSet' = [lastSet EXCEPT ![t] = <<>>]
  /\ fpc' = [fpc EXCEPT ![t] = "lock_wait"]
  /\ UNCHANGED <<entries, parent, fsAborted>>

\* ---------------------------------------------- Directory::Handle::setEntry

\* The thread calls setEntry(name, c) on its Directory::Handle.
FsSetBegin(t, name, c) ==
  /\ ~fsAborted
  /\ UNCHANGED <<bvars, pvars>>
  /\ fpc[t] = "have"
  /\ TopDir(t) \in Dirs
  /\ op' = [op EXCEPT ![t] = [target |-> TopDir(t), name |-> name, child |-> c]]
  /\ lastSet' = [lastSet EXCEPT ![t] = <<>>]
  /\ fpc' = [fpc EXCEPT ![t] = "set_lock"]
  /\ UNCHANGED <<hnd, mtx, entries, parent, fsAborted>>

\* auto lockedInserted = inserted->locked()
FsSetLock(t) ==
  /\ ~fsAborted
  /\ UNCHANGED <<bvars, pvars>>
  /\ fpc[t] = "set_lock"
  /\ \E r \in SetEntryChildHandle(mtx, t, op[t].child) :
       /\ mtx' = r.mtx
       /\ hnd' = [hnd EXCEPT ![t].child = r.h]
  /\ fpc' = [fpc EXCEPT ![t] = "set_entry"]
  /\ UNCHANGED <<entries, parent, op, lastSet, fsAborted>>

\* getDir()->entries[pathName] = inserted
FsSetWrite(t) ==
  /\ ~fsAborted
  /\ UNCHANGED <<bvars, pvars>>
  /\ fpc[t] = "set_entry"
  /\ entries' = [entries EXCEPT ![TopDir(t)][op[t].name] = op[t].child]
  /\ fpc' = [fpc EXCEPT ![t] = "set_check"]
  /\ UNCHANGED <<hnd, mtx, parent, op, lastSet, fsAborted>>

\* assert(!lockedInserted.getParent()); lockedInserted.setParent(file);
\* setEntry returns and lockedInserted is destroyed.
FsSetLink(t) ==
  /\ ~fsAborted
  /\ UNCHANGED <<bvars, pvars>>
  /\ fpc[t] = "set_check"
  /\ IF parent[op[t].child] = "null"
       THEN /\ parent' = [parent EXCEPT ![op[t].child] = TopDir(t)]
            /\ mtx' = HandleDtor(mtx, hnd[t].child)
            /\ hnd' = [hnd EXCEPT ![t].child = NoHandle]
            /\ lastSet' = [lastSet EXCEPT
                             ![t] = <<TopDir(t), op[t].name, op[t].child>>]
            /\ op' = [op EXCEPT ![t] = NoOp]
            /\ fpc' = [fpc EXCEPT ![t] = "have"]
            /\ UNCHANGED fsAborted
       ELSE /\ fsAborted' = TRUE
            /\ UNCHANGED <<parent, mtx, hnd, lastSet, op, fpc>>
  /\ UNCHANGED entries

\* ------------------------------------------- Directory::Handle::unlinkEntry

\* The thread calls unlinkEntry(name) on its Directory::Handle, for a name
\* that has an entry.
FsUnlinkBegin(t, name) ==
  /\ ~fsAborted
  /\ UNCHANGED <<bvars, pvars>>
  /\ fpc[t] = "have"
  /\ TopDir(t) \in Dirs
  /\ entries[TopDir(t)][name] # "null"
  /\ op' = [op EXCEPT ![t] = [target |-> TopDir(t), name |-> name,
                              child |-> entries[TopDir(t)][name]]]
  /\ lastSet' = [lastSet EXCEPT ![t] = <<>>]
  /\ fpc' = [fpc EXCEPT ![t] = "unl_lock"]
  /\ UNCHANGED <<hnd, mtx, entries, parent, fsAborted>>

\* auto unlinked = getDir()->entries[pathName]->locked()
FsUnlinkLock(t) ==
  /\ ~fsAborted
  /\ UNCHANGED <<bvars, pvars>>
  /\ fpc[t] = "unl_lock"
  /\ \E r \in UnlinkChildHandle(mtx, t, op[t].child) :
       /\ mtx' = r.mtx
       /\ hnd' = [hnd EXCEPT ![t].child = r.h]
  /\ fpc' = [fpc EXCEPT ![t] = "unl_parent"]
  /\ UNCHANGED <<entries, parent, op, lastSet, fsAborted>>

\* unlinked.setParent({})
FsUnlinkParent(t) ==
  /\ ~fsAborted
  /\ UNCHANGED <<bvars, pvars>>
  /\ fpc[t] = "unl_parent"
  /\ parent' = [parent EXCEPT ![op[t].child] = "null"]
  /\ fpc' = [fpc EXCEPT ![t] = "unl_erase"]
  /\ UNCHANGED <<hnd, mtx, entries, op, lastSet, fsAborted>>

\* getDir()->entries.erase(pathName); unlinkEntry returns and unlinked is
\* destroyed.
FsUnlinkErase(t) ==
  /\ ~fsAborted
  /\ UNCHANGED <<bvars, pvars>>
  /\ fpc[t] = "unl_erase"
  /\ entries' = [entries EXCEPT ![TopDir(t)][op[t].name] = "null"]
  /\ mtx' = HandleDtor(mtx, hnd[t].child)
  /\ hnd' = [hnd EXCEPT ![t].child = NoHandle]
  /\ op' = [op EXCEPT ![t] = NoOp]
  /\ fpc' = [fpc EXCEPT ![t] = "have"]
  /\ UNCHANGED <<parent, lastSet, fsAborted>>

\* The nodes are unlocked; no thread has a handle or is inside a call.
FsThreadsInit ==
  /\ fpc = [t \in FsThreads |-> "idle"]
  /\ hnd = [t \in FsThreads |->
              [top |-> NoHandle, child |-> NoHandle, probe |-> NoHandle]]
  /\ mtx = [n \in Nodes |-> [owner |-> "none", count |-> 0]]
  /\ op = [t \in FsThreads |-> NoOp]
  /\ lastSet = [t \in FsThreads |-> <<>>]
  /\ fsAborted = FALSE

\* The nodes exist, unlinked and unlocked; no thread has a handle.
FsInit ==
  /\ FsThreadsInit
  /\ entries = [d \in Dirs |-> [x \in Names |-> "null"]]
  /\ parent = [n \in Nodes |-> "null"]

FsNext ==
  \/ \E t \in FsThreads, n \in Nodes : FsLockBegin(t, n)
  \/ \E t \in FsThreads : FsLockAcquire(t)
  \/ \E t \in FsThreads, n \in Nodes : FsTryProbe(t, n)
  \/ \E t \in FsThreads : FsTryReturn(t)
  \/ \E t \in FsThreads : FsTryNone(t)
  \/ \E t \in FsThreads : FsRelease(t)
  \/ \E t \in FsThreads, x \in Names : FsDescend(t, x)
  \/ \E t \in FsThreads, x \in Names, c \in Nodes : FsSetBegin(t, x, c)
  \/ \E t \in FsThreads : FsSetLock(t)
  \/ \E t \in FsThreads : FsSetWrite(t)
  \/ \E t \in FsThreads : FsSetLink(t)
  \/ \E t \in FsThreads, x \in Names : FsUnlinkBegin(t, x)
  \/ \E t \in FsThreads : FsUnlinkLock(t)
  \/ \E t \in FsThreads : FsUnlinkParent(t)
  \/ \E t \in FsThreads : FsUnlinkErase(t)

\* -------------------------------- splitPath / getDir / getParsedPath

\* The root directory, and the thread that resolves.
Root == "d1"
Resolver == "t1"

\* The characters of a pathname: the separator and the one-character names.
PathChars == {"/"} \cup Names

\* The pathnames given to the resolver.
Paths == UNION {[1..k -> PathChars] : k \in 0..MaxPathLen}

NoInput == [path |-> <<>>, forbidden |-> "null", cwd |-> Root]
NoWalk == [parts |-> <<>>, pos |-> 0, curr |-> "null"]
NoResult == [err |-> "OK", parent |-> "null", child |-> "null"]

\* The fields of pathname p from position i on, tok being the characters of
\* the field read so far: every separator ends a field, empty or not.
RECURSIVE Fields(_, _, _)
Fields(p, i, tok) ==
  IF i > Len(p) THEN <<tok>>
  ELSE IF p[i] = "/" THEN <<tok>> \o Fields(p, i + 1, <<>>)
  ELSE Fields(p, i + 1, Append(tok, p[i]))

\* The '/'-delimited components of pathname p from position i on: runs of
\* separators delimit, and no component is empty.
RECURSIVE Tokens(_, _, _)
Tokens(p, i, tok) ==
  IF i > Len(p) THEN (IF tok = <<>> THEN <<>> ELSE <<tok>>)
  ELSE IF p[i] = "/"
    THEN (IF tok = <<>> THEN <<>> ELSE <<tok>>) \o Tokens(p, i + 1, <<>>)
  ELSE Tokens(p, i + 1, Append(tok, p[i]))

\* Whether pathname p is absolute.
IsAbsolute(p) == Len(p) > 0 /\ p[1] = "/"

\* Mutant: splitPath keeps the empty components.
SplitPath_KeepEmpty(p) ==
  (IF IsAbsolute(p) THEN << <<"/">> >> ELSE <<>>)
    \o (IF IsAbsolute(p) THEN Tail(Fields(p, 1, <<>>)) ELSE Fields(p, 1, <<>>))

\* splitPath: the components of the path, the first being "/" iff the path is
\* absolute.
SplitPath(p) ==
  (IF IsAbsolute(p) THEN << <<"/">> >> ELSE <<>>) \o Tokens(p, 1, <<>>)

\* Directory::Handle::getEntry: the entry of directory d for a component, or
\* nothing.
GetEntry(d, comp) ==
  IF Len(comp) = 1 /\ comp[1] \in Names THEN entries[d][comp[1]] ELSE "null"

\* Mutant: a wholly empty pathname is reported as a missing entry.
EmptyPathError_NoEntry == "ENOENT"

\* The error of getParsedPath for a wholly empty pathname.
EmptyPathError == "EINVAL"

\* Mutant: getDir goes on through a node that is not a directory as if it had
\* no entries.
NotDirError_NoEntry == "ENOENT"

\* The error of getDir for a node that is not a directory.
NotDirError == "ENOTDIR"

\* Mutant: a missing child is reported as an error.
MissingChildError_NoEntry(child) == IF child = "null" THEN "ENOENT" ELSE "OK"

\* The error getParsedPath reports once the parent directory is resolved.
MissingChildError(child) == "OK"

\* Mutant: getDir ignores forbiddenAncestor.
IsForbidden_Ignored(n, forbidden) == FALSE

\* getDir: the node found is the forbidden ancestor.
IsForbidden(n, forbidden) == forbidden # "null" /\ n = forbidden

\* The call fails: err is set, and no parent and no child are returned.
Fail(e) ==
  /\ rout' = [err |-> e, parent |-> "null", child |-> "null"]
  /\ rpc' = "done"
  /\ UNCHANGED rwalk

\* splitPath(pathname)
ResolveSplit ==
  /\ rpc = "start"
  /\ rwalk' = [NoWalk EXCEPT !.parts = SplitPath(rin.path)]
  /\ rpc' = "parse"
  /\ UNCHANGED <<bvars, fvars, rin, rout>>

\* getParsedPath up to its call of getDir on all components but the last,
\* and getDir's choice of where the walk starts.
ResolveParse ==
  /\ rpc = "parse"
  /\ LET parts == rwalk.parts
     IN  IF parts = <<>> THEN Fail(EmptyPathError)
         ELSE IF parts = << <<"/">> >>
           THEN /\ rout' = [NoResult EXCEPT !.child = Root]
                /\ rpc' = "done"
                /\ UNCHANGED rwalk
         ELSE /\ rwalk' = IF parts[1] = <<"/">>
                            THEN [rwalk EXCEPT !.curr = Root, !.pos = 2]
                            ELSE [rwalk EXCEPT !.curr = rin.cwd, !.pos = 1]
              /\ rpc' = "walk"
              /\ UNCHANGED rout
  /\ UNCHANGED <<bvars, fvars, rin>>

\* One iteration of getDir's loop: the current node has to be a directory; it
\* is locked for the lookup of the next component and unlocked again.
ResolveStep ==
  /\ rpc = "walk"
  /\ rwalk.pos < Len(rwalk.parts)
  /\ IF rwalk.curr \notin Dirs THEN Fail(NotDirError)
     ELSE /\ CanAcquire(mtx, Resolver, rwalk.curr)
          /\ LET next == GetEntry(rwalk.curr, rwalk.parts[rwalk.pos])
             IN  IF IsForbidden(next, rin.forbidden) THEN Fail("EINVAL")
                 ELSE IF next = "null" THEN Fail("ENOENT")
                 ELSE /\ rwalk' = [rwalk EXCEPT !.curr = next, !.pos = @ + 1]
                      /\ UNCHANGED <<rpc, rout>>
  /\ UNCHANGED <<bvars, fvars, rin>>

\* The end of getDir: what was reached has to be a directory.
ResolveDirEnd ==
  /\ rpc = "walk"
  /\ rwalk.pos = Len(rwalk.parts)
  /\ IF rwalk.curr \notin Dirs THEN Fail(NotDirError)
     ELSE /\ rpc' = "child"
          /\ UNCHANGED <<rwalk, rout>>
  /\ UNCHANGED <<bvars, fvars, rin>>

\* The end of getParsedPath: the parent directory is locked, the last
\* component looked up, and the locked handle returned with the child.
ResolveChild ==
  /\ rpc = "child"
  /\ \E r \in HandleCtor(mtx, Resolver, rwalk.curr) :
       /\ mtx' = r.mtx
       /\ hnd' = [hnd EXCEPT ![Resolver].top = r.h]
  /\ LET child == GetEntry(rwalk.curr, rwalk.parts[Len(rwalk.parts)])
     IN  rout' = [err |-> MissingChildError(child), parent |-> rwalk.curr,
                  child |-> child]
  /\ rpc' = "done"
  /\ UNCHANGED <<bvars, fpc, entries, parent, op, lastSet, fsAborted, rin,
                 rwalk>>

\* The caller is done with the ParsedPath: the parent handle is destroyed.
ResolveRelease ==
  /\ rpc = "done"
  /\ mtx' = HandleDtor(mtx, hnd[Resolver].top)
  /\ hnd' = [hnd EXCEPT ![Resolver].top = NoHandle]
  /\ rpc' = "released"
  /\ UNCHANGED <<bvars, fpc, entries, parent, op, lastSet, fsAborted, rin,
                 rwalk, rout>>

\* The bridge before its constructor has run.
BridgeInit ==
  /\ pc = [t \in Threads |->
             CASE t = "ctor" -> "ctor_lock"
               [] t = "worker" -> "unborn"
               [] t = "dtor" -> "dtor_idle"
               [] OTHER -> "idle"]
  /\ blocked = [t \in Threads |-> "run"]
  /\ mutex = "free"
  /\ state = "Uninitialized"
  /\ workCount = 0
  /\ work = NoWork
  /\ workID = [i \in Invokers |-> 0]
  /\ calls = [i \in Invokers |-> 0]
  /\ running = {}
  /\ started = [w \in WorkItems |-> 0]
  /\ resumed = {}
  /\ submitted = {}
  /\ returned = {}
  /\ aborted = FALSE
  /\ dtorRaced = FALSE

\* No path is being resolved.
PathIdle ==
  /\ rpc = "off"
  /\ rin = NoInput
  /\ rwalk = NoWalk
  /\ rout = NoResult

\* The entry maps in which every node has at most one entry.
Trees ==
  {e \in [Dirs -> [Names -> Nodes \cup {"null"}]] :
     \A n \in Nodes :
       Cardinality({dx \in Dirs \X Names : e[dx[1]][dx[2]] = n}) <= 1}

\* The parent of node n in entry maps e.
ParentIn(e, n) ==
  IF \E d \in Dirs, x \in Names : e[d][x] = n
    THEN CHOOSE d \in Dirs : \E x \in Names : e[d][x] = n
    ELSE "null"

\* A thread is about to resolve some pathname in some tree, from some working
\* directory and with or without some forbidden ancestor.
PathInit ==
  /\ BridgeInit
  /\ FsThreadsInit
  /\ entries \in Trees
  /\ parent = [n \in Nodes |-> ParentIn(entries, n)]
  /\ rpc = "start"
  /\ rin \in [path : Paths, forbidden : Nodes \cup {"null"}, cwd : Dirs]
  /\ rwalk = NoWalk
  /\ rout = NoResult

PathNext ==
  \/ ResolveSplit
  \/ ResolveParse
  \/ ResolveStep
  \/ ResolveDirEnd
  \/ ResolveChild
  \/ ResolveRelease

\* --------------------------------------------------------- specifications

CtorRun == CtorLock \/ CtorSpawn \/ CtorWait \/ CtorReturn \/ Reacquire("ctor")

WorkerStep ==
  \/ WorkerMainLock
  \/ WorkerMainNotify
  \/ WorkerIter
  \/ WorkerWait
  \/ WorkerExit
  \/ WorkerRun
  \/ WorkerResume
  \/ Reacquire("worker")

InvokerRun(i) ==
  \/ InvokeLock(i)
  \/ InvokeGate(i)
  \/ InvokeSubmit(i)
  \/ InvokeNotify(i)
  \/ InvokeWait(i)
  \/ InvokeReturn(i)
  \/ Reacquire(i)

DtorRun ==
  \/ DtorLock
  \/ DtorSet
  \/ DtorNotify
  \/ DtorUnlock
  \/ DtorJoin
  \/ Reacquire("dtor")

Init == BridgeInit /\ FsInit /\ PathIdle

Next ==
  \/ CtorRun
  \/ WorkerStep
  \/ \E i \in Invokers : InvokeBegin(i)
  \/ \E i \in Invokers : InvokerRun(i)
  \/ DtorBegin
  \/ DtorRun
  \/ \E t \in Threads : SpuriousWakeup(t)

Spec == Init /\ [][Next]_vars

\* Every interleaving, including destructing the bridge while an invoke is in
\* progress.
RaceNext == Next \/ DtorBeginRace

RaceSpec == Init /\ [][RaceNext]_vars

\* The behaviours without spurious wakeups, under fair scheduling: a thread
\* that can take a step eventually takes one. Nothing is assumed of when a
\* thread begins a call or of when the destructor is started.
FairNext ==
  \/ CtorRun
  \/ WorkerStep
  \/ \E i \in Invokers : InvokeBegin(i)
  \/ \E i \in Invokers : InvokerRun(i)
  \/ DtorBegin
  \/ DtorRun

Fairness ==
  /\ WF_vars(CtorRun)
  /\ WF_vars(WorkerStep)
  /\ \A i \in Invokers : WF_vars(InvokerRun(i))
  /\ WF_vars(DtorRun)

FairSpec == Init /\ [][FairNext]_vars /\ Fairness

\* The worker's own code: every step of the worker but the firing of a resume
\* callback, which is up to the work function.
WorkerCode ==
  \/ WorkerMainLock
  \/ WorkerMainNotify
  \/ WorkerIter
  \/ WorkerWait
  \/ WorkerExit
  \/ WorkerRun
  \/ Reacquire("worker")

\* Fair scheduling of the threads, an invoker that can take a step again and
\* again eventually taking one, with nothing assumed of the work functions: a
\* work item may never call its resume callback.
HangFairness ==
  /\ WF_vars(CtorRun)
  /\ WF_vars(WorkerCode)
  /\ \A i \in Invokers : SF_vars(InvokerRun(i))
  /\ WF_vars(DtorRun)

HangSpec == Init /\ [][FairNext]_vars /\ HangFairness

\* The file tree: every interleaving of the threads' locked(), maybeLocked(),
\* setEntry and unlinkEntry calls.
FsSpec == Init /\ [][FsNext]_vars

\* Path resolution: one call of splitPath and getParsedPath, for every
\* pathname, tree, working directory and forbidden ancestor within the bounds.
PathSpec == PathInit /\ [][PathNext]_vars

\* ------------------------------------------------------------------ claims

\* C1: the worker has at most one work item in flight: a work item whose work
\* function has been called and whose resume callback has not fired yet is the
\* only one, and when the worker is about to call a work function no earlier
\* item is still awaiting its resume callback.
C1_OneInFlight ==
  /\ Cardinality(running) <= 1
  /\ (pc["worker"] = "iter_woke" /\ state = "WorkAvailable") => running = {}
  /\ \A w \in WorkItems : started[w] > 0 => (w \in running \/ w \in resumed)

\* C1 witness: a second work item is in flight after the first one's resume
\* callback has fired.
C1_Witness == Cardinality(running) = 1 /\ resumed # {}

\* C2: an invoke call returns only after the resume callback of the work item
\* that this call submitted has fired.
C2_OwnCompletion ==
  /\ returned \subseteq resumed
  /\ \A i \in Invokers : pc[i] = "inv_ret" => <<i, calls[i]>> \in resumed

\* C2 witness: an invoke has returned although the other invoker won the race
\* for the mutex and had already stored the next work item, which the worker
\* has not started.
C2_Witness ==
  \E i \in Invokers :
    /\ <<i, calls[i]>> \in returned
    /\ pc[i] = "idle"
    /\ state = "WorkAvailable"
    /\ work[1] # i
    /\ started[work] = 0

\* C3: under fair scheduling every invoke call that has begun eventually
\* returns.
C3_AllReturn == \A i \in Invokers : InCall(i) ~> ~InCall(i)

\* C3 witness: every call of every invoker has returned, and the calls
\* overlapped (the last submission was accepted before an earlier call had
\* been observed complete).
C3_Witness ==
  /\ returned = WorkItems
  /\ \E i \in Invokers : workID[i] > 0

\* C4: the constructor returns only after the worker has set the state to
\* Waiting, it does return, and no invoke stores work while the state is
\* Uninitialized.
C4_CtorWaitsForWorker ==
  /\ [](pc["ctor"] \in {"ctor_ret", "ctor_done"} => state # "Uninitialized")
  /\ [](\A i \in Invokers : InCall(i) => state # "Uninitialized")
  /\ <>(pc["ctor"] = "ctor_done")

\* C4 witness: the constructor has returned and the worker is blocked in its
\* first wait.
C4_Witness ==
  /\ pc["ctor"] = "ctor_done"
  /\ state = "Waiting"
  /\ pc["worker"] = "iter_wait"
  /\ blocked["worker"] = "cv"
  /\ submitted = {}

\* C5: invoke stores its work only when the state is Waiting; a stored work
\* item stays in the slot until the worker takes it, and the worker calls
\* every stored item once and nothing else.
C5_NoOverwrite ==
  /\ \A i \in Invokers : pc[i] = "inv_submit" => state = "Waiting"
  /\ \A w \in submitted :
       \/ started[w] = 1
       \/ started[w] = 0 /\ state = "WorkAvailable" /\ work = w
  /\ \A w \in WorkItems : started[w] > 0 => w \in submitted
  /\ \A w \in returned : started[w] = 1

\* C5 witness: a work item is pending, not yet taken by the worker, while
\* another invoker that found the state WorkAvailable is blocked in its first
\* wait.
C5_Witness ==
  /\ state = "WorkAvailable"
  /\ started[work] = 0
  /\ \E i \in Invokers : pc[i] = "inv_gate" /\ blocked[i] = "cv"

\* The transitions of State the state machine allows.
AllowedTransitions ==
  { <<"Uninitialized", "Waiting">>, <<"Waiting", "WorkAvailable">>,
    <<"WorkAvailable", "Waiting">>, <<"Waiting", "ShouldExit">> }

\* C6: every change of `state` is one of the four allowed transitions (so
\* ShouldExit is never left), also when the destructor is run while invokes
\* are in progress.
C6_Transitions == [][state' # state => <<state, state'>> \in AllowedTransitions]_vars

\* C6 witness: the state has gone through all four transitions, with the
\* destructor started while an invoke was in progress.
C6_Witness == state = "ShouldExit" /\ workCount > 0 /\ dtorRaced

\* C7: a destructor run on a constructed bridge with no invoke in progress
\* finds the state Waiting, sets ShouldExit, the worker calls no work function
\* from then on and exits, and the destructor's join completes.
C7_DtorTerminates ==
  /\ [](pc["dtor"] = "dtor_check" => state = "Waiting")
  /\ [](pc["dtor"] \in {"dtor_notify", "dtor_unlock", "dtor_join", "dtor_done"}
          => state = "ShouldExit")
  /\ [][pc["dtor"] # "dtor_idle" => started' = started]_vars
  /\ [](pc["dtor"] = "dtor_done" => pc["worker"] = "exited" /\ running = {})
  /\ (pc["dtor"] = "dtor_lock" ~> pc["dtor"] = "dtor_done")

\* C7 witness: the destructor has finished after the bridge has done work.
C7_Witness == pc["dtor"] = "dtor_done" /\ resumed # {}

\* The number of Handle objects that own the lock of node n.
OwnCount(n) ==
  Cardinality({ <<t, k>> \in FsThreads \X {"top", "child", "probe"} :
                  hnd[t][k].node = n /\ hnd[t][k].owns })

\* C8: at most one thread has a handle on a node, whether it came from
\* locked() or maybeLocked(); every handle owns the node's lock; the recursion
\* count of the lock is the number of owning handles (the holder reacquires
\* without blocking), and the lock can be acquired by another thread only when
\* the holder has released all of its handles.
C8_LockExclusive ==
  \A n \in Nodes :
    /\ Cardinality({t \in FsThreads : HasHandle(t, n)}) <= 1
    /\ \A t \in FsThreads : HasHandle(t, n) => mtx[n].owner = t
    /\ mtx[n].count = OwnCount(n)
    /\ (mtx[n].owner = "none") = (OwnCount(n) = 0)
    /\ \A t \in FsThreads : mtx[n].owner = t => CanAcquire(mtx, t, n)
    /\ \A t, u \in FsThreads :
         (t # u /\ CanAcquire(mtx, u, n)) => ~HasHandle(t, n)

\* C8 witness: a thread holds a node's lock twice (it reacquired it without
\* blocking) while another thread is blocked in locked() on that node.
C8_Witness ==
  \E n \in Nodes, u \in FsThreads :
    /\ mtx[n].count = 2
    /\ fpc[u] = "lock_wait"
    /\ op[u].target = n
    /\ mtx[n].owner # u

\* C9: once setEntry(D, name, C) has returned, C.parent = D and
\* D.entries[name] = C, for as long as the caller keeps D's handle; while the
\* entry is written and the parent is not yet, no other thread has a handle on
\* D or on C; and an entry whose child does not point back to the directory
\* exists only inside such a step.
C9_LinkAtomic ==
  /\ \A t \in FsThreads :
       lastSet[t] # <<>> =>
         /\ parent[lastSet[t][3]] = lastSet[t][1]
         /\ entries[lastSet[t][1]][lastSet[t][2]] = lastSet[t][3]
  /\ \A t, u \in FsThreads :
       (fpc[t] = "set_check" /\ u # t) =>
         ~HasHandle(u, TopDir(t)) /\ ~HasHandle(u, op[t].child)
  /\ ~fsAborted =>
       \A d \in Dirs, x \in Names :
         (entries[d][x] # "null" /\ parent[entries[d][x]] # d) =>
           \E t \in FsThreads :
             /\ fpc[t] \in {"set_check", "unl_erase"}
             /\ TopDir(t) = d
             /\ op[t].name = x
             /\ op[t].child = entries[d][x]

\* C9 witness: setEntry has returned and another thread, which now has a
\* handle on the child, sees both links.
C9_Witness ==
  \E t, u \in FsThreads :
    /\ t # u
    /\ lastSet[t] # <<>>
    /\ hnd[u].top.node = lastSet[t][3]
    /\ fpc[u] = "have"

\* No setEntry or unlinkEntry call is in progress.
FsQuiescent ==
  \A t \in FsThreads : fpc[t] \in {"idle", "lock_wait", "try_second", "try_none", "have"}

\* The directories whose entry map contains node c.
Containers(c) == {d \in Dirs : \E x \in Names : entries[d][x] = c}

\* C10: after any sequence of setEntry and unlinkEntry calls, a node's parent
\* is non-empty if and only if exactly one directory's entry map contains it.
C10_ParentIffEntry ==
  (FsQuiescent /\ ~fsAborted) =>
    \A c \in Nodes : (parent[c] # "null") = (Cardinality(Containers(c)) = 1)

\* Directory::entries as a relation: the nodes directory d holds a strong
\* reference (a shared_ptr in its entry map) to.
Children(d) == {entries[d][x] : x \in Names} \ {"null"}

\* The nodes reachable from the nodes of S through at most k entry maps.
RECURSIVE ReachableIn(_, _)
ReachableIn(S, k) ==
  IF k = 0 THEN S
  ELSE LET T == S \cup UNION {Children(d) : d \in S \cap Dirs}
       IN  IF T = S THEN S ELSE ReachableIn(T, k - 1)

\* The nodes reachable from directory d through one or more entry maps.
Descendants(d) == ReachableIn(Children(d), Cardinality(Nodes))

\* C11: after any sequence of setEntry and unlinkEntry calls whose assertions
\* pass, no directory is reachable from itself through entry maps.
C11_NoStrongCycle ==
  (FsQuiescent /\ ~fsAborted) => \A d \in Dirs : d \notin Descendants(d)

\* The nodes whose lock thread t holds.
LocksHeld(t) == {n \in Nodes : mtx[n].owner = t}

\* The thread is inside setEntry or unlinkEntry.
InLinkStep(t) ==
  fpc[t] \in {"set_lock", "set_entry", "set_check",
              "unl_lock", "unl_parent", "unl_erase"}

WaitsFor(t) ==
  LET n == IF fpc[t] = "lock_wait" THEN op[t].target
           ELSE IF fpc[t] \in {"set_lock", "unl_lock"} THEN op[t].child
           ELSE "null"
  IN  IF n # "null" /\ ~CanAcquire(mtx, t, n) THEN n ELSE "null"

\* C13: a thread that holds a node's lock acquires a second one only by the
\* non-blocking try: no thread is blocked on a node's lock while it holds the
\* lock of a different node.
C13_NoBlockingSecondLock ==
  \A t \in FsThreads :
    WaitsFor(t) # "null" => LocksHeld(t) \ {WaitsFor(t)} = {}

\* C14: maybeLocked never blocks (the Handle constructor of its return
\* statement finds the lock acquirable); it returns nothing exactly when
\* another thread holds the lock, and then the thread has acquired nothing;
\* the handle it returns holds the lock once, so that the thread holds no lock
\* when it is back without a handle.
C14_MaybeLocked ==
  /\ [](\A t \in FsThreads :
          /\ fpc[t] = "try_second" =>
               /\ CanAcquire(mtx, t, op[t].target)
               /\ mtx[op[t].target].count = 1
          /\ fpc[t] = "try_none" => LocksHeld(t) = {} /\ ~hnd[t].probe.owns
          /\ fpc[t] = "have" =>
               /\ hnd[t].top.owns
               /\ mtx[TopDir(t)] = [owner |-> t, count |-> 1]
          /\ fpc[t] = "idle" => LocksHeld(t) = {})
  /\ [][\A t \in FsThreads :
          /\ (fpc[t] = "idle" /\ fpc'[t] = "try_none") =>
               /\ mtx[op'[t].target].owner \notin {"none", t}
               /\ mtx' = mtx
          /\ (fpc[t] = "idle" /\ fpc'[t] = "try_second") =>
               mtx[op'[t].target].owner = "none"
          /\ (fpc[t] = "try_none" /\ fpc'[t] = "idle") => mtx' = mtx]_vars

\* C14 witness: one thread's maybeLocked has acquired a node's lock and is
\* about to return a handle, another thread's maybeLocked on the same node
\* has failed and is about to return nothing.
C14_Witness ==
  \E t, u \in FsThreads :
    /\ fpc[t] = "try_second"
    /\ fpc[u] = "try_none"
    /\ op[t].target = op[u].target

\* C15: setEntry checks that the child has no parent before it links: the
\* step that writes the directory's entry map is taken only for a child whose
\* parent is empty (when the child has a parent, the assertion trips with the
\* entry map and the child's parent unmodified).
C15_AssertBeforeLink ==
  [][\A t \in FsThreads :
       (fpc[t] = "set_entry" /\ fpc'[t] = "set_check") =>
         parent[op[t].child] = "null"]_vars

\* The call of getParsedPath has returned.
Resolved == rpc \in {"done", "released"}

\* The call failed with error e: it returned no parent and no child.
FailedWith(e) == rout = [err |-> e, parent |-> "null", child |-> "null"]

\* The directory the walk starts from, and the names it follows from there.
WalkStart ==
  IF rwalk.parts # <<>> /\ rwalk.parts[1] = <<"/">> THEN Root ELSE rin.cwd

WalkNames ==
  IF rwalk.parts # <<>> /\ rwalk.parts[1] = <<"/">>
    THEN Tail(rwalk.parts) ELSE rwalk.parts

\* The node the first k names lead to in the tree, or "null" when one of them
\* has no entry or is looked up in a node that is not a directory.
RECURSIVE NodeAt(_)
NodeAt(k) ==
  IF k = 0 THEN WalkStart
  ELSE LET d == NodeAt(k - 1)
       IN  IF d \in Dirs THEN GetEntry(d, WalkNames[k]) ELSE "null"

\* The first k names lead through nodes none of which is the forbidden
\* ancestor.
NotForbiddenUpTo(k) ==
  rin.forbidden = "null" \/ \A j \in 1..k : NodeAt(j) # rin.forbidden

\* C16: resolving the wholly empty pathname fails with EINVAL and yields no
\* node, whatever the tree, the working directory and the forbidden ancestor.
C16_EmptyPath ==
  (Resolved /\ rin.path = <<>>) =>
    /\ FailedWith("EINVAL")
    /\ hnd[Resolver].top = NoHandle
    /\ LocksHeld(Resolver) = {}

\* C16 witness: the empty pathname has been resolved in a tree in which the
\* working directory has an entry.
C16_Witness ==
  /\ rpc = "done"
  /\ rin.path = <<>>
  /\ Children(rin.cwd) # {}

\* C17: resolving a path in which a non-final component names an existing
\* node that is not a directory (and the walk has not met the forbidden
\* ancestor up to it) fails with ENOTDIR.
C17_NotADirectory ==
  Resolved =>
    \A k \in 1..(Len(WalkNames) - 1) :
      (NodeAt(k) \in Files /\ NotForbiddenUpTo(k)) => FailedWith("ENOTDIR")

\* C17 witness: an absolute path whose first component is a file and is
\* followed by another component has been resolved.
C17_Witness ==
  /\ rpc = "done"
  /\ IsAbsolute(rin.path)
  /\ Len(WalkNames) >= 2
  /\ NodeAt(1) \in Files

\* C18: when all components but the last lead to a directory and the last has
\* no entry there, getParsedPath returns that directory's locked handle and a
\* missing child and sets no error; when a non-final component has no entry
\* in the directory reached so far, it fails with ENOENT.
C18_MissingChild ==
  /\ (Resolved /\ Len(WalkNames) >= 1) =>
       LET m == Len(WalkNames) - 1
       IN  (/\ NodeAt(m) \in Dirs
            /\ NotForbiddenUpTo(m)
            /\ GetEntry(NodeAt(m), WalkNames[m + 1]) = "null") =>
             /\ rout = [err |-> "OK", parent |-> NodeAt(m), child |-> "null"]
             /\ rpc = "done" =>
                  /\ hnd[Resolver].top = [node |-> NodeAt(m), owns |-> TRUE]
                  /\ mtx[NodeAt(m)].owner = Resolver
  /\ Resolved =>
       \A k \in 1..(Len(WalkNames) - 1) :
         (NodeAt(k - 1) \in Dirs /\ NodeAt(k) = "null" /\ NotForbiddenUpTo(k))
           => FailedWith("ENOENT")

\* C18 witness: a path of two components, the first an existing directory
\* and the second absent in it, has been resolved.
C18_Witness ==
  /\ rpc = "done"
  /\ Len(WalkNames) = 2
  /\ NodeAt(1) \in Dirs
  /\ NodeAt(2) = "null"
  /\ rin.forbidden = "null"

\* What getParsedPath returns when the forbidden ancestor plays no part: the
\* first missing or non-directory node among the non-final components decides
\* the error, otherwise the directory reached is the parent and its entry for
\* the last component the child.
ResultWithoutForbidden ==
  LET m == Len(WalkNames) - 1
      bad == {k \in 1..m : NodeAt(k) = "null"}
      first == CHOOSE k \in bad : \A j \in bad : k <= j
  IN  IF WalkNames = <<>>
        THEN IF rwalk.parts = <<>>
               THEN [err |-> "EINVAL", parent |-> "null", child |-> "null"]
               ELSE [err |-> "OK", parent |-> "null", child |-> Root]
      ELSE IF bad # {}
        THEN [err |-> IF NodeAt(first - 1) \in Dirs THEN "ENOENT"
                      ELSE "ENOTDIR",
              parent |-> "null", child |-> "null"]
      ELSE IF NodeAt(m) \notin Dirs
        THEN [err |-> "ENOTDIR", parent |-> "null", child |-> "null"]
      ELSE [err |-> "OK", parent |-> NodeAt(m),
            child |-> GetEntry(NodeAt(m), WalkNames[m + 1])]

\* C19: when one of the non-final components leads to the forbidden ancestor,
\* resolution fails with EINVAL and returns no directory; when none does, the
\* result is the one the tree and the path alone determine.
C19_ForbiddenAncestor ==
  Resolved =>
    /\ (\E k \in 1..(Len(WalkNames) - 1) :
          rin.forbidden # "null" /\ NodeAt(k) = rin.forbidden)
         => FailedWith("EINVAL") /\ hnd[Resolver].top = NoHandle
    /\ NotForbiddenUpTo(Len(WalkNames) - 1) => rout = ResultWithoutForbidden

\* C19 witness: the walk of an absolute path has met the forbidden ancestor, a
\* directory under the root, at a non-final component.
C19_Witness ==
  /\ rpc = "done"
  /\ IsAbsolute(rin.path)
  /\ Len(WalkNames) >= 2
  /\ rin.forbidden \in Dirs \ {Root}
  /\ NodeAt(1) = rin.forbidden

\* Position i of pathname p is kept when the empty components are removed: a
\* separator is dropped when another separator follows it, and when it ends a
\* pathname that has other characters.
KeepsChar(p, i) ==
  \/ p[i] # "/"
  \/ i < Len(p) /\ p[i + 1] # "/"
  \/ i = Len(p) /\ \A j \in 1..Len(p) : p[j] = "/"

\* Pathname p without its duplicated and trailing separators.
Normalize(p) ==
  LET idx == SelectSeq([i \in 1..Len(p) |-> i], LAMBDA i : KeepsChar(p, i))
  IN  [k \in 1..Len(idx) |-> p[idx[k]]]

\* C20: a pathname with trailing or duplicated separators is split into the
\* components of the same pathname without them, so that the same nodes are
\* traversed and the same parent and child result; no component is empty, and
\* the first component is "/" if and only if the pathname is absolute.
C20_SeparatorsCollapse ==
  rpc \notin {"off", "start"} =>
    /\ rwalk.parts = SplitPath(Normalize(rin.path))
    /\ \A i \in 1..Len(rwalk.parts) : rwalk.parts[i] # <<>>
    /\ (rwalk.parts # <<>> /\ rwalk.parts[1] = <<"/">>) = IsAbsolute(rin.path)
    /\ \A i \in 2..Len(rwalk.parts) : rwalk.parts[i] # <<"/">>
    /\ (Resolved /\ NotForbiddenUpTo(Len(WalkNames) - 1)) =>
         rout = ResultWithoutForbidden

\* C20 witness: a pathname with a duplicated and a trailing separator has
\* been resolved to a parent and an existing child.
C20_Witness ==
  /\ rpc = "done"
  /\ Len(rin.path) - Len(Normalize(rin.path)) >= 2
  /\ rin.path[Len(rin.path)] = "/"
  /\ rout.parent # "null"
  /\ rout.child # "null"

\* The thread that holds the lock thread t is blocked on, or "none".
BlockedOn(t) == IF WaitsFor(t) = "null" THEN "none" ELSE mtx[WaitsFor(t)].owner

\* The threads that thread t waits for, directly or through other waiters,
\* following at most k more links of the wait-for relation from S.
RECURSIVE WaitChain(_, _)
WaitChain(S, k) ==
  IF k = 0 THEN S
  ELSE LET T == S \cup ({BlockedOn(u) : u \in S} \ {"none"})
       IN  IF T = S THEN S ELSE WaitChain(T, k - 1)

\* C21: threads that lock a directory and call setEntry or unlinkEntry on it
\* never reach a state in which a set of them wait for each other's node
\* locks: no thread is, through the wait-for relation, blocked on itself.
C21_NoDeadlock ==
  \A t \in FsThreads :
    BlockedOn(t) # "none" =>
      t \notin WaitChain({BlockedOn(t)}, Cardinality(FsThreads))

\* The thread is inside unlinkEntry.
InUnlink(t) == fpc[t] \in {"unl_lock", "unl_parent", "unl_erase"}

C23_ReturnAfterOwnResume ==
  \A w \in WorkItems : (w \in resumed) ~> (w \in returned)

\* The worker is inside condition.wait: blocked on the condition variable, or
\* woken and reacquiring the mutex before wait returns.
WorkerWaiting ==
  pc["worker"] = "iter_wait" /\ blocked["worker"] \in {"cv", "mutex"}

\* C24: from the constructor's return until the worker exits, the worker
\* either holds the mutex or is inside its wait on the condition variable,
\* also while a work item is in flight; so an invoker holds the mutex only
\* while the worker is inside its wait.
C24_WorkerHoldsOrWaits ==
  (pc["ctor"] = "ctor_done" /\ pc["worker"] # "exited") =>
    /\ mutex = "worker" \/ WorkerWaiting
    /\ ~(mutex = "worker" /\ WorkerWaiting)
    /\ \A i \in Invokers : mutex = i => WorkerWaiting
    /\ running # {} => mutex = "worker"

\* C24 witness: a work item is in flight, its work function has returned,
\* the worker holds the mutex, and an invoker that was woken inside its wait
\* is waiting to reacquire it.
C24_Witness ==
  /\ pc["ctor"] = "ctor_done"
  /\ pc["worker"] = "inwork"
  /\ running # {}
  /\ mutex = "worker"
  /\ \E i \in Invokers : blocked[i] = "mutex"

====
